---- MODULE Spec2Model ----
(***************************************************************************)
(* A model of ovos_workshop/skill_launcher.py: the SkillLoader state       *)
(* machine (load / unload / reload / activate / deactivate and the file    *)
(* watcher callback), the module loader and the class resolver it calls.   *)
(*                                                                         *)
(* Every method of SkillLoader is an operator from a state record to a     *)
(* state record, composed the way the Python methods call each other.  The *)
(* record holds the loader's fields and the part of the world the methods  *)
(* act on (sys.modules, the instances and watchers that exist, the bus).   *)
(* What skill-author code does (the source raises, a constructor raises,   *)
(* ...) is an input e, drawn from Envs by the actions.                     *)
(*                                                                         *)
(* Spec calls the methods of a directory loader one whole call at a time;  *)
(* SpecLoads only load(), while the blacklist changes; SpecPlugin is the   *)
(* PluginSkillLoader with the methods it inherits; SpecResolve applies     *)
(* get_skill_class to every small module; SpecSteps runs the host's calls  *)
(* and the watcher's callback statement by statement on two threads, while *)
(* the source is edited; SpecEvents is Spec over more loads of fewer kinds *)
(* of skill, with the sequence of bus messages on record; SpecLaunch runs  *)
(* the ovos-skill-launcher script on every small machine.                  *)
(*                                                                         *)
(* SpecAsk is OVOSSkill._wait_response of ovos_workshop/skills/ovos.py and *)
(* the thread of _real_wait_response, statement by statement.              *)
(***************************************************************************)
EXTENDS Integers, Sequences, FiniteSets

VARIABLES
    _loaded,            \* SkillLoader._loaded: "None" | "True" | "False"
    load_attempted,     \* SkillLoader.load_attempted
    last_loaded,        \* SkillLoader.last_loaded
    instance,           \* SkillLoader.instance (NoInstance is Python's None)
    active,             \* SkillLoader.active
    _watchdog,          \* SkillLoader._watchdog (0 is None, else the watcher's id)
    skill_module,       \* SkillLoader.skill_module (NoModule is None)
    _skill_class,       \* SkillLoader._skill_class ("None" or a class/factory name)
    blacklisted_skills, \* config['skills']['blacklisted_skills']
    sys_modules,        \* the entries of sys.modules under the skill's module name
    alive,              \* ids of the skill instances constructed and not shut down
    armed,              \* ids of the FileWatchers created and not shut down
    now,                \* time(); also the source of fresh object ids
    last,               \* the last operation called: its name, the loader it was
                        \* called on, whether the blacklist named the skill, its
                        \* result and what it did
    _skill_directory,   \* SkillLoader._skill_directory ("None" or a path)
    threads,            \* the statement each thread is about to execute
    disk,               \* the skill's source: its version, the version the last
                        \* load read, the last version written while a reload
                        \* was allowed, and whether a watcher has a change to
                        \* report
    anomalies,          \* what statement-wise execution has met so far
    resolution,         \* a call of get_skill_class: its argument and, once it
                        \* has returned, its candidates, result and warning
    launcher,           \* a run of ovos-skill-launcher: sys.argv, the skill
                        \* directories and plugins it finds, and what it has
                        \* launched
    question,           \* a call of OVOSSkill._wait_response: its arguments,
                        \* what the user will say, and where the call stands
    bus                 \* the names of the messages the loader has emitted on
                        \* the bus, in order (kept by SpecEvents)

\* The loader and the world its methods act on.
loader == <<_loaded, load_attempted, last_loaded, instance, active, _watchdog,
            skill_module, _skill_class, _skill_directory, blacklisted_skills,
            sys_modules, alive, armed, now>>

vars == <<loader, last, threads, disk, anomalies, resolution, launcher, question, bus>>

\* The model stops the clock here; each _load() takes one tick.
MaxTime == 2

\* A module handed to get_skill_class binds at most this many classes.
MaxDefs == 4

\* ------------------------------------------------------------------ values

\* An instance is known by its id, by what the loader reads of it
\* (reload_skill), by the class or factory that made it and by the module
\* object the loader held when it called that class or factory (0: none).
NoInstance == [id |-> 0, reload_skill |-> FALSE, made_by |-> "None", module |-> 0]

NoModule == [obj |-> 0, create_skill |-> "absent", classes |-> <<>>, submodules |-> FALSE]

\* The loader's identifier (SkillLoader.skill_id) and the identifiers a
\* blacklist may name.
skill_id == "weather"

SkillIds == {"weather"}

\* ------------------------------------------------------- class resolution

SKILL_BASE_CLASSES == {"BaseSkill", "OVOSSkill"}

\* The proper superclasses of each class a skill's main file may bind at top
\* level: B, T derive from OVOSSkill, S and S2 derive from B, U derives from
\* S, X is no skill.
Bases(c) ==
    CASE c = "OVOSSkill" -> {"BaseSkill"}
      [] c = "B" -> {"OVOSSkill", "BaseSkill"}
      [] c = "S" -> {"B", "OVOSSkill", "BaseSkill"}
      [] c = "S2" -> {"B", "OVOSSkill", "BaseSkill"}
      [] c = "U" -> {"S", "B", "OVOSSkill", "BaseSkill"}
      [] c = "T" -> {"OVOSSkill", "BaseSkill"}
      [] OTHER -> {}

Classes == {"BaseSkill", "OVOSSkill", "B", "S", "S2", "U", "T", "X"}

issubclass(a, b) == a = b \/ b \in Bases(a)

RECURSIVE remove(_, _)
\* list.remove(x): drops the first element equal to x.
remove(seq, x) ==
    IF seq = <<>> THEN <<>>
    ELSE IF Head(seq) = x THEN Tail(seq)
    ELSE <<Head(seq)>> \o remove(Tail(seq), x)

RECURSIVE discard_subtypes(_, _)
\* The loop of get_skill_class with its test turned round: a candidate is
\* dropped when it is a subclass of another.
discard_subtypes(todo, candidates) ==
    IF todo = <<>> THEN candidates
    ELSE LET candidate == Head(todo)
             others == SelectSeq(candidates, LAMBDA clazz : clazz # candidate)
         IN discard_subtypes(
                Tail(todo),
                IF \E i \in 1..Len(others) : issubclass(candidate, others[i])
                THEN remove(candidates, candidate)
                ELSE candidates)

RECURSIVE discard_supertypes(_, _)
\* The loop of get_skill_class over list(candidates): todo is the copy being
\* iterated, candidates the list that shrinks.
discard_supertypes(todo, candidates) ==
    IF todo = <<>> THEN candidates
    ELSE LET candidate == Head(todo)
             others == SelectSeq(candidates, LAMBDA clazz : clazz # candidate)
         IN discard_supertypes(
                Tail(todo),
                IF \E i \in 1..Len(others) : issubclass(others[i], candidate)
                THEN remove(candidates, candidate)
                ELSE candidates)

is_candidate(obj) ==
    /\ \E c \in SKILL_BASE_CLASSES : issubclass(obj, c)
    /\ obj \notin SKILL_BASE_CLASSES

\* callable(skill_module): what a plugin hands over is a record naming the
\* class or factory, a module is a record of what it binds.
callable(module) == "callable" \in DOMAIN module

\* The first loop of get_skill_class: the classes of the module's __dict__,
\* in its order, that derive from a base class and are none.
found_candidates(module) == SelectSeq(module.classes, is_candidate)

\* The list candidates after the second loop.
remaining_candidates(module) ==
    discard_supertypes(found_candidates(module), found_candidates(module))

\* LOG.warning("Multiple skills found in a single file!")
warns_multiple_skills(module) ==
    ~callable(module) /\ Len(remaining_candidates(module)) > 1

get_skill_class(module) ==
    IF callable(module) THEN module.callable
    ELSE IF remaining_candidates(module) # <<>>
         THEN remaining_candidates(module)[1]
         ELSE "None"

get_create_skill_function(module) ==
    IF module.create_skill = "function" THEN "create_skill" ELSE "None"

\* ------------------------------------------------------------ the inputs

\* What a skill's __init__.py may hold: create_skill is absent, a value that
\* is not callable, or a function; classes are the classes bound at top level
\* in definition order; submodules says whether executing it imports
\* submodules of the skill's package.
ModuleSources ==
    { [create_skill |-> "absent",   classes |-> <<>>,                      submodules |-> FALSE],
      [create_skill |-> "value",    classes |-> <<"OVOSSkill", "B", "S">>, submodules |-> TRUE],
      [create_skill |-> "function", classes |-> <<"OVOSSkill", "B">>,      submodules |-> FALSE] }

\* One choice of everything outside the loader that an operation meets.
Envs ==
    [ file            : {"missing", "raises", "ok"},
      source          : ModuleSources,
      modern_raises   : BOOLEAN,
      legacy_raises   : BOOLEAN,
      fully_init      : BOOLEAN,
      startup_raises  : BOOLEAN,
      reload_skill    : BOOLEAN,
      shutdown_raises : BOOLEAN ]

NoSource == [create_skill |-> "absent", classes |-> <<>>, submodules |-> FALSE]

\* An input that a call never reads is fixed, so that each course of a call
\* is drawn once: a missing file has no content, calling None (no module, or
\* a module with neither factory nor skill class) raises, the second
\* constructor form is read only when the first raised, the instance's
\* attributes only when one was made.
Canonical(e) ==
    /\ e.file = "missing" => e.source = NoSource
    /\ e.file # "ok" \/ e.source = NoSource => e.modern_raises /\ e.legacy_raises
    /\ ~e.modern_raises => ~e.legacy_raises
    /\ e.modern_raises /\ e.legacy_raises =>
           e.fully_init /\ ~e.startup_raises /\ ~e.reload_skill
    /\ e.fully_init => ~e.startup_raises
    /\ e.startup_raises => ~e.reload_skill

\* What a call that loads and shuts down may meet; what one that only loads
\* may; what one that only shuts down may.
ReloadEnvs == {e \in Envs : Canonical(e)}

LoadEnvs == {e \in ReloadEnvs : ~e.shutdown_raises}

ShutdownEnvs ==
    {e \in ReloadEnvs : e.file = "missing" /\ e.modern_raises /\ e.legacy_raises}

\* ------------------------------------------------- the state the methods see

\* The loader's own fields.
Self ==
    [ _loaded        |-> _loaded,
      load_attempted |-> load_attempted,
      last_loaded    |-> last_loaded,
      instance       |-> instance,
      active         |-> active,
      _watchdog      |-> _watchdog,
      skill_module   |-> skill_module,
      _skill_class   |-> _skill_class,
      _skill_directory |-> _skill_directory ]

\* What the record of a call keeps of the loader it was called on.
Pre == [instance |-> instance, _watchdog |-> _watchdog, active |-> active,
        _loaded |-> _loaded, load_attempted |-> load_attempted]

\* The state an operation starts in: the loader's fields, the world, and the
\* call's own bookkeeping (what it did so far, whether an exception is
\* propagating, the value the last call returned: ret for a bool or None,
\* ret_module for a module).
Start ==
    [ _loaded            |-> _loaded,
      load_attempted     |-> load_attempted,
      last_loaded        |-> last_loaded,
      instance           |-> instance,
      active             |-> active,
      _watchdog          |-> _watchdog,
      skill_module       |-> skill_module,
      _skill_class       |-> _skill_class,
      _skill_directory   |-> _skill_directory,
      blacklisted_skills |-> blacklisted_skills,
      sys_modules        |-> sys_modules,
      alive              |-> alive,
      armed              |-> armed,
      now                |-> now,
      log                |-> <<>>,
      raised             |-> FALSE,
      ret                |-> "None",
      ret_module         |-> NoModule ]

\* F applied to the value of x.
With(x, F(_)) == CHOOSE r \in {F(v) : v \in {x}} : TRUE

Did(s, ev, arg) == [s EXCEPT !.log = Append(@, [ev |-> ev, arg |-> arg])]

\* bus.emit(Message(name, ...))
emit(s, name) == Did(s, "emit", name)

\* The names of the messages a call that did log has emitted, in order.
emitted(log) ==
    [i \in 1..Len(SelectSeq(log, LAMBDA x : x.ev = "emit")) |->
        SelectSeq(log, LAMBDA x : x.ev = "emit")[i].arg]

\* ---------------------------------------------------------- the properties

\* SkillLoader.skill_class, read while the loader holds the state s.
skill_class(s) ==
    IF s._skill_class # "None" THEN s._skill_class
    ELSE IF s.instance.id # 0 THEN s.instance.made_by
    ELSE IF s.skill_module.obj # 0 THEN get_skill_class(s.skill_module)
    ELSE "None"

is_blacklisted(s) == skill_id \in s.blacklisted_skills

\* SkillLoader.skill_directory: the directory given to __init__, else the
\* root_dir of the instance, else None.
skill_directory(s) ==
    IF s._skill_directory # "None" THEN s._skill_directory
    ELSE IF s.instance.id # 0 THEN "root_dir"
    ELSE "None"

\* reload_allowed without its test of the active flag.
reload_allowed_when_inactive(s) == s.instance.id = 0 \/ s.instance.reload_skill

reload_allowed(s) == s.active /\ (s.instance.id = 0 \/ s.instance.reload_skill)

\* ------------------------------------------------------------- the methods

\* self.instance.default_shutdown(), on an instance: the hook has run,
\* whether it raises or not.
default_shutdown(s, e) ==
    [Did(s, "default_shutdown", IF e.shutdown_raises THEN "raised" ELSE "returned")
        EXCEPT !.alive = @ \ {s.instance.id}]

\* del self.instance; self.instance = None
del_instance(s) == [s EXCEPT !.instance = NoInstance]

\* The instance is None: default_shutdown() is an AttributeError, caught like
\* any other; otherwise the hook runs, and whether it raises or not the
\* reference is dropped.
_execute_instance_shutdown(s, e) ==
    IF s.instance.id = 0 THEN s
    ELSE del_instance(default_shutdown(s, e))

\* gc.collect() and a warning: no state of the loader changes.
_garbage_collect(s) == s

_emit_skill_shutdown_event(s) == emit(s, "mycroft.skills.shutdown")

\* The first statement of _unload.
shutdown_watchdog(s) ==
    IF s._watchdog # 0
    THEN [Did(s, "watchdog.shutdown", "")
             EXCEPT !.armed = @ \ {s._watchdog}, !._watchdog = 0]
    ELSE s

_unload(s, e) ==
    With(shutdown_watchdog(s), LAMBDA s1 :
    With(_execute_instance_shutdown(s1, e), LAMBDA s2 :
    With(_garbage_collect(s2), LAMBDA s3 :
    _emit_skill_shutdown_event(s3))))

unload(s, e) ==
    IF s.instance.id # 0 THEN _execute_instance_shutdown(s, e) ELSE s

_prepare_for_load(s) ==
    [s EXCEPT !.load_attempted = TRUE, !.instance = NoInstance]

\* Only a log line.
_skip_load(s) == s

\* remove_submodule_refs, then the new module object is put in sys.modules
\* and executed; an exception of the execution leaves the entry behind.
load_skill_module(s, e) ==
    [Did(s, "exec_module", IF e.file = "raises" THEN "raised" ELSE "returned")
        EXCEPT !.sys_modules = [main |-> s.now,
                                subs |-> IF e.source.submodules THEN s.now ELSE 0],
               !.raised = (e.file = "raises"),
               !.ret_module = IF e.file = "raises" THEN NoModule
                              ELSE [obj |-> s.now,
                                    create_skill |-> e.source.create_skill,
                                    classes |-> e.source.classes,
                                    submodules |-> e.source.submodules]]

\* Returns (in ret_module) the module, or None when the file is missing or its
\* execution raised.  os.path.join(None, ...) is a TypeError, raised before
\* anything is read and outside the try.
_load_skill_source(s, e) ==
    IF skill_directory(s) = "None" THEN [s EXCEPT !.raised = TRUE]
    ELSE IF e.file = "missing" THEN [s EXCEPT !.ret_module = NoModule]
    ELSE With(load_skill_module(s, e), LAMBDA s1 :
         IF s1.raised THEN [s1 EXCEPT !.raised = FALSE, !.ret_module = NoModule]
         ELSE s1)

\* The constructor call of _create_skill_instance with the two forms in the
\* other order: skill_creator() first, skill_creator(bus=..., skill_id=...)
\* if that raised.
construct_legacy_first(s, e, skill_creator_) ==
    With(Did(s, "call_legacy", skill_creator_), LAMBDA s1 :
    IF skill_creator_ # "None" /\ ~e.legacy_raises
    THEN [Did(s1, "constructed", skill_creator_)
             EXCEPT !.instance = [id |-> s.now, reload_skill |-> e.reload_skill,
                                  made_by |-> skill_creator_,
                                  module |-> s.skill_module.obj],
                    !.alive = @ \cup {s.now}]
    ELSE With(Did(s1, "call_modern", skill_creator_), LAMBDA s2 :
         IF skill_creator_ # "None" /\ ~e.modern_raises
         THEN [Did(s2, "constructed", skill_creator_)
                  EXCEPT !.instance = [id |-> s.now, reload_skill |-> e.reload_skill,
                                       made_by |-> skill_creator_,
                                       module |-> s.skill_module.obj],
                         !.alive = @ \cup {s.now}]
         ELSE [s2 EXCEPT !.raised = TRUE]))

\* The constructor call of _create_skill_instance: skill_creator(bus=...,
\* skill_id=...), then skill_creator() if that raised anything; calling None
\* raises both times.  A constructor that returns has made an instance, whose
\* id is fresh.
construct(s, e, skill_creator) ==
    With(Did(s, "call_modern", skill_creator), LAMBDA s1 :
    IF skill_creator # "None" /\ ~e.modern_raises
    THEN [Did(s1, "constructed", skill_creator)
             EXCEPT !.instance = [id |-> s.now, reload_skill |-> e.reload_skill,
                                  made_by |-> skill_creator,
                                  module |-> s.skill_module.obj],
                    !.alive = @ \cup {s.now}]
    ELSE With(Did(s1, "call_legacy", skill_creator), LAMBDA s2 :
         IF skill_creator # "None" /\ ~e.legacy_raises
         THEN [Did(s2, "constructed", skill_creator)
                  EXCEPT !.instance = [id |-> s.now, reload_skill |-> e.reload_skill,
                                       made_by |-> skill_creator,
                                       module |-> s.skill_module.obj],
                         !.alive = @ \cup {s.now}]
         ELSE [s2 EXCEPT !.raised = TRUE]))

\* The instance's _is_fully_initialized is read, and _startup is called when
\* it is false.
startup(s, e) ==
    IF e.fully_init THEN Did(s, "_is_fully_initialized", "True")
    ELSE [Did(Did(s, "_is_fully_initialized", "False"),
              "_startup", IF e.startup_raises THEN "raised" ELSE "returned")
             EXCEPT !.raised = e.startup_raises]

\* get_create_skill_function(skill_module) or self.skill_class, the other
\* way round: a class the loader finds is preferred to the factory.
skill_creator_class_first(s) ==
    IF skill_class(s) # "None" THEN skill_class(s)
    ELSE get_create_skill_function(s.skill_module)

\* skill_creator = get_create_skill_function(skill_module) or self.skill_class
skill_creator(s) ==
    IF get_create_skill_function(s.skill_module) # "None"
    THEN get_create_skill_function(s.skill_module)
    ELSE skill_class(s)

\* Any exception of the constructors or of _startup drops the reference.
_create_skill_instance(s, e) ==
    With(construct(s, e, skill_creator(s)), LAMBDA s1 :
    With(IF s1.raised THEN s1 ELSE startup(s1, e), LAMBDA s2 :
    With(IF s2.raised THEN [s2 EXCEPT !.raised = FALSE, !.instance = NoInstance] ELSE s2,
         LAMBDA s3 :
    [s3 EXCEPT !.ret = IF s3.instance.id # 0 THEN "True" ELSE "False"])))

\* _communicate_load_status without its else: a loaded skill is reported as
\* loaded and then as failed.
_communicate_load_status_falling_through(s) ==
    IF s._loaded = "True"
    THEN IF s.instance.id = 0 THEN [s EXCEPT !.raised = TRUE]
         ELSE emit(emit(s, "mycroft.skills.loaded"), "mycroft.skills.loading_failure")
    ELSE emit(s, "mycroft.skills.loading_failure")

\* With loaded true the message reads self.instance.name: an AttributeError
\* when the instance is None.
_communicate_load_status(s) ==
    IF s._loaded = "True"
    THEN IF s.instance.id = 0 THEN [s EXCEPT !.raised = TRUE]
         ELSE emit(s, "mycroft.skills.loaded")
    ELSE emit(s, "mycroft.skills.loading_failure")

\* FileWatcher([None], ...) takes the path's directory name or asks whether
\* it is a file: a TypeError, and no watcher.
_start_filewatcher(s) ==
    IF s._watchdog # 0 THEN s
    ELSE IF skill_directory(s) = "None" THEN [s EXCEPT !.raised = TRUE]
    ELSE [Did(s, "FileWatcher", "") EXCEPT !._watchdog = s.now, !.armed = @ \cup {s.now}]

\* The not-blacklisted branch of _load.
\* load_source_and_create keeping the module it has when the source gives
\* none.
load_source_or_keep_module(s, e) ==
    With(_load_skill_source(s, e), LAMBDA s1 :
    IF s1.raised THEN s1
    ELSE With(IF s1.ret_module.obj # 0 THEN [s1 EXCEPT !.skill_module = s1.ret_module] ELSE s1,
              LAMBDA s2 :
         With(_create_skill_instance(s2, e), LAMBDA s3 :
         [s3 EXCEPT !._loaded = s3.ret])))

load_source_and_create(s, e) ==
    With(_load_skill_source(s, e), LAMBDA s1 :
    IF s1.raised THEN s1
    ELSE With([s1 EXCEPT !.skill_module = s1.ret_module], LAMBDA s2 :
         With(_create_skill_instance(s2, e), LAMBDA s3 :
         [s3 EXCEPT !._loaded = s3.ret])))

\* time() has moved on since the last load: the call's time stamps
\* last_loaded and names the objects the call creates.
_load(s, e) ==
    With(_prepare_for_load([s EXCEPT !.now = @ + 1]), LAMBDA s1 :
    With(IF is_blacklisted(s1) THEN _skip_load(s1) ELSE load_source_and_create(s1, e),
         LAMBDA s2 :
    IF s2.raised THEN s2
    ELSE With(_communicate_load_status([s2 EXCEPT !.last_loaded = s2.now]), LAMBDA s3 :
         IF s3.raised THEN s3
         ELSE With(_start_filewatcher(s3), LAMBDA s4 :
              IF s4.raised THEN s4 ELSE [s4 EXCEPT !.ret = s4._loaded]))))

load(s, e) ==
    With(Did(s, "LOG.info", "ATTEMPTING TO LOAD SKILL"), LAMBDA s1 : _load(s1, e))

\* reload without the instance's permission test.
\* reload() that tears down whether or not the loader holds an instance.
reload_unloading_always(s, e) ==
    With(Did(s, "LOG.info", "ATTEMPTING TO RELOAD SKILL"), LAMBDA s1 :
    IF s1.instance.id # 0 /\ ~s1.instance.reload_skill
    THEN [s1 EXCEPT !.ret = "False"]
    ELSE With(_unload(s1, e), LAMBDA s2 : _load(s2, e)))

reload_without_permission(s, e) ==
    With(Did(s, "LOG.info", "ATTEMPTING TO RELOAD SKILL"), LAMBDA s1 :
    IF s1.instance.id # 0
    THEN With(_unload(s1, e), LAMBDA s2 : _load(s2, e))
    ELSE _load(s1, e))

reload(s, e) ==
    With(Did(s, "LOG.info", "ATTEMPTING TO RELOAD SKILL"), LAMBDA s1 :
    IF s1.instance.id # 0
    THEN IF ~s1.instance.reload_skill THEN [s1 EXCEPT !.ret = "False"]
         ELSE With(_unload(s1, e), LAMBDA s2 : _load(s2, e))
    ELSE _load(s1, e))

\* activate() returns nothing; an exception of load() passes through.
activate(s, e) ==
    With([s EXCEPT !.active = TRUE], LAMBDA s1 :
    [load(s1, e) EXCEPT !.ret = "None"])

\* deactivate without its unload().
deactivate_without_unload(s, e) == [s EXCEPT !.active = FALSE, !.ret = "None"]

deactivate(s, e) ==
    With([s EXCEPT !.active = FALSE], LAMBDA s1 :
    [unload(s1, e) EXCEPT !.ret = "None"])

\* PluginSkillLoader.load(skill_class): the class or factory is kept, and
\* called unless the blacklist names the skill.
plugin_load(s, e, skill_class_) ==
    With(Did(s, "LOG.info", "ATTEMPTING TO LOAD PLUGIN SKILL"), LAMBDA s0 :
    With(_prepare_for_load([s0 EXCEPT !._skill_class = skill_class_, !.now = @ + 1]),
         LAMBDA s1 :
    With(IF is_blacklisted(s1) THEN _skip_load(s1)
         ELSE With(_create_skill_instance(s1, e), LAMBDA s2 : [s2 EXCEPT !._loaded = s2.ret]),
         LAMBDA s3 :
    With(_communicate_load_status([s3 EXCEPT !.last_loaded = s3.now]), LAMBDA s4 :
    IF s4.raised THEN s4 ELSE [s4 EXCEPT !.ret = s4._loaded]))))

\* activate() of a PluginSkillLoader: self.load() is PluginSkillLoader.load
\* called without its argument, a TypeError.
plugin_activate(s) == [s EXCEPT !.active = TRUE, !.raised = TRUE]

\* The watcher's callback: any exception of reload() is logged and dropped.
_handle_filechange(s, e) ==
    [(IF reload_allowed(s) THEN reload(s, e) ELSE s)
        EXCEPT !.raised = FALSE, !.ret = "None"]

\* ------------------------------------------------------- the state machine

\* No thread is in a method, the source is as first written.
Idle == [host |-> [op |-> "none", pc |-> "idle"], watcher |-> [op |-> "none", pc |-> "idle"]]

Unwatched == [version |-> 0, executed |-> 0, needed |-> 0, pending |-> FALSE]

\* get_skill_class has not been called.
NotCalled == [skill_module |-> NoModule, done |-> FALSE, result |-> "None",
              candidates |-> <<>>, warning |-> FALSE]

\* ovos-skill-launcher has not been run.
NotLaunched == [argv |-> <<>>, xdg_data_dirs |-> <<>>, directory |-> "skills",
                extra_directories |-> <<>>, isdir |-> {}, plugins |-> {},
                launched |-> <<>>, exit |-> "none"]

\* _wait_response has not been called.
NotAsked == [pc |-> "none", caller |-> "none", num_retries |-> 0, num_fails |-> 0,
             _response |-> "None", response |-> "None", prompts |-> 0,
             aborted |-> FALSE, result |-> "None"]

\* What __init__ leaves, whatever the directory and the blacklist are.
Constructed ==
    /\ _loaded = "None"
    /\ load_attempted = FALSE
    /\ last_loaded = 0
    /\ instance = NoInstance
    /\ active = TRUE
    /\ _watchdog = 0
    /\ skill_module = NoModule
    /\ _skill_class = "None"
    /\ sys_modules = [main |-> 0, subs |-> 0]
    /\ alive = {}
    /\ armed = {}
    /\ now = 0
    /\ last = [op |-> "__init__", pre |-> Pre, blacklisted |-> FALSE,
               ret |-> "None", log |-> <<>>]
    /\ threads = Idle
    /\ disk = Unwatched
    /\ anomalies = {}
    /\ bus = <<>>

\* SkillLoader(bus, skill_directory, skill_id): nothing loaded, no watcher.
Init ==
    /\ Constructed
    /\ _skill_directory = "/skills/weather"
    /\ blacklisted_skills \in SUBSET SkillIds
    /\ resolution = NotCalled
    /\ launcher = NotLaunched
    /\ question = NotAsked

\* The loader and the world become what the record t says.
Store(t) ==
    /\ _loaded' = t._loaded
    /\ load_attempted' = t.load_attempted
    /\ last_loaded' = t.last_loaded
    /\ instance' = t.instance
    /\ active' = t.active
    /\ _watchdog' = t._watchdog
    /\ skill_module' = t.skill_module
    /\ _skill_class' = t._skill_class
    /\ _skill_directory' = t._skill_directory
    /\ blacklisted_skills' = t.blacklisted_skills
    /\ sys_modules' = t.sys_modules
    /\ alive' = t.alive
    /\ armed' = t.armed
    /\ now' = t.now

\* The call op, which took the state Start to t, has ended: by returning
\* t.ret, or by raising.
Ended(limit, op, t) ==
    /\ t.now <= limit
    /\ Store(t)
    /\ last' = [op |-> op, pre |-> Pre, blacklisted |-> is_blacklisted(Start),
                ret |-> IF t.raised THEN "raise" ELSE t.ret, log |-> t.log]
    /\ UNCHANGED <<threads, disk, anomalies, resolution, launcher, question>>

Commit(op, t) == Ended(MaxTime, op, t) /\ UNCHANGED bus

\* The same, with the messages the call emitted put on the record of the bus.
CommitOnBus(limit, op, t) == Ended(limit, op, t) /\ bus' = bus \o emitted(t.log)

Load == \E e \in LoadEnvs : \E t \in {load(Start, e)} : Commit("load", t)

Unload == \E e \in ShutdownEnvs : \E t \in {unload(Start, e)} : Commit("unload", t)

Reload == \E e \in ReloadEnvs : \E t \in {reload(Start, e)} : Commit("reload", t)

Activate == \E e \in LoadEnvs : \E t \in {activate(Start, e)} : Commit("activate", t)

Deactivate == \E e \in ShutdownEnvs : \E t \in {deactivate(Start, e)} : Commit("deactivate", t)

\* A watcher that has not been shut down reports a change in the skill's
\* directory and calls the loader's callback.
FileChange ==
    /\ armed # {}
    /\ \E e \in ReloadEnvs : \E t \in {_handle_filechange(Start, e)} :
           Commit("_handle_filechange", t)

\* The operator edits the blacklist of the configuration.
ConfigChange ==
    /\ \E b \in SUBSET SkillIds : b # blacklisted_skills /\ blacklisted_skills' = b
    /\ UNCHANGED <<_loaded, load_attempted, last_loaded, instance, active, _watchdog,
                   skill_module, _skill_class, _skill_directory, sys_modules, alive,
                   armed, now, last, threads, disk, anomalies, resolution, launcher,
                   question, bus>>

Next ==
    \/ Load
    \/ Unload
    \/ Reload
    \/ Activate
    \/ Deactivate
    \/ FileChange
    \/ ConfigChange

Spec == Init /\ [][Next]_vars

\* The host only ever calls load(), while the operator edits the blacklist.
NextLoads ==
    \/ Load
    \/ ConfigChange

SpecLoads == Init /\ [][NextLoads]_vars

\* ------------------------------------------------- the messages on the bus

\* The loader's calls in any sequential order, over more loads and fewer
\* kinds of skill: the source is always there and has a create_skill
\* factory, so a load differs only in whether the instance is made, whether
\* it permits reloading and whether its shutdown hook raises.
MaxLoads == 3

EventEnvs == {e \in ReloadEnvs : e.file = "ok" /\ e.source.create_skill = "function"}

EventsLoad ==
    \E e \in EventEnvs \cap LoadEnvs : \E t \in {load(Start, e)} :
        CommitOnBus(MaxLoads, "load", t)

EventsUnload ==
    \E e \in ShutdownEnvs : \E t \in {unload(Start, e)} : CommitOnBus(MaxLoads, "unload", t)

EventsReload ==
    \E e \in EventEnvs : \E t \in {reload(Start, e)} : CommitOnBus(MaxLoads, "reload", t)

EventsActivate ==
    \E e \in EventEnvs \cap LoadEnvs : \E t \in {activate(Start, e)} :
        CommitOnBus(MaxLoads, "activate", t)

EventsDeactivate ==
    \E e \in ShutdownEnvs : \E t \in {deactivate(Start, e)} :
        CommitOnBus(MaxLoads, "deactivate", t)

EventsFileChange ==
    /\ armed # {}
    /\ \E e \in EventEnvs : \E t \in {_handle_filechange(Start, e)} :
           CommitOnBus(MaxLoads, "_handle_filechange", t)

NextEvents ==
    \/ EventsLoad
    \/ EventsUnload
    \/ EventsReload
    \/ EventsActivate
    \/ EventsDeactivate
    \/ EventsFileChange
    \/ ConfigChange

SpecEvents == Init /\ [][NextEvents]_vars

\* ---------------------------------------------------- the plugin's loader

\* What a plugin hands to load(): its skill class or a factory.
PluginClasses == {"PluginSkill", "plugin_factory"}

\* PluginSkillLoader(bus, skill_id): no directory.
InitPlugin ==
    /\ Constructed
    /\ _skill_directory = "None"
    /\ blacklisted_skills \in SUBSET SkillIds
    /\ resolution = NotCalled
    /\ launcher = NotLaunched
    /\ question = NotAsked

\* Calling the class reads no file: what the file holds is no input.
PluginEnvs == {e \in LoadEnvs : e.file = "ok" /\ e.source.create_skill = "function"}

PluginLoad ==
    \E skill_class_ \in PluginClasses : \E e \in PluginEnvs :
        \E t \in {plugin_load(Start, e, skill_class_)} : Commit("load", t)

PluginActivate == \E t \in {plugin_activate(Start)} : Commit("activate", t)

\* reload(), unload() and deactivate() are SkillLoader's.
NextPlugin ==
    \/ PluginLoad
    \/ PluginActivate
    \/ Reload
    \/ Unload
    \/ Deactivate
    \/ ConfigChange

SpecPlugin == InitPlugin /\ [][NextPlugin]_vars

\* ------------------------------------------------------ the class resolver

RECURSIVE ListsUpTo(_)
\* The lists of at most n classes.
ListsUpTo(n) ==
    IF n = 0 THEN {<<>>}
    ELSE ListsUpTo(n - 1) \cup
         {Append(l, c) : l \in {m \in ListsUpTo(n - 1) : Len(m) = n - 1}, c \in Classes}

\* What get_skill_class may be given: a module, known by the classes its
\* __dict__ binds in definition order (a class bound to two names is there
\* twice), or the class or factory of a plugin.
ResolverInputs ==
    {[classes |-> l] : l \in ListsUpTo(MaxDefs)}
        \cup {[callable |-> c] : c \in PluginClasses}

InitResolve ==
    /\ Constructed
    /\ _skill_directory = "/skills/weather"
    /\ blacklisted_skills = {}
    /\ resolution \in {[NotCalled EXCEPT !.skill_module = m] : m \in ResolverInputs}
    /\ launcher = NotLaunched
    /\ question = NotAsked

\* get_skill_class(skill_module) is called and returns.
Resolve ==
    /\ ~resolution.done
    /\ resolution' =
           [skill_module |-> resolution.skill_module,
            done |-> TRUE,
            result |-> get_skill_class(resolution.skill_module),
            candidates |-> IF callable(resolution.skill_module) THEN <<>>
                           ELSE remaining_candidates(resolution.skill_module),
            warning |-> warns_multiple_skills(resolution.skill_module)]
    /\ UNCHANGED <<loader, last, threads, disk, anomalies, launcher, question, bus>>

NextResolve == Resolve

SpecResolve == InitResolve /\ [][NextResolve]_vars

\* --------------------------------------- statement by statement, two threads

\* The host calls load(), unload() and deactivate() on its thread; the
\* watcher calls _handle_filechange on its own.  Nothing in the loader
\* orders the two, so a thread's statements run one at a time, with the
\* other thread's (and edits of the source) in between.

\* The source is edited at most this often.
MaxVersion == 2

Threads == {"host", "watcher"}

\* What the statements meet here: a source that executes and defines a
\* factory, a skill that is constructed by the first form, is fully
\* initialized and permits reloading; its teardown hook may raise.
StepEnvs ==
    {e \in ReloadEnvs : /\ e.file = "ok"
                        /\ e.source.create_skill = "function"
                        /\ ~e.modern_raises
                        /\ e.fully_init
                        /\ e.reload_skill}

\* The id of the object the thread th makes at time t: two threads never
\* make the same object.
Fresh(th, t) == 2 * t + (IF th = "watcher" THEN 1 ELSE 0)

\* What a statement leaves: the state, the statement to execute next, and
\* what went wrong on the way.
Goto(t, pc) == [state |-> t, pc |-> pc, met |-> {}]

Meets(t, pc, what) == [state |-> t, pc |-> pc, met |-> {what}]

\* The statement at pc of the call op, executed by thread th in state s.
\* Reading an attribute of self.instance when it is None is an
\* AttributeError: reload() and _communicate_load_status leave the call with
\* it, _execute_instance_shutdown catches it.
statement(th, op, pc, s, e) ==
    CASE pc = "deactivate" ->
             Goto([s EXCEPT !.active = FALSE], "unload")
      [] pc = "unload" ->
             Goto(s, IF s.instance.id # 0 THEN "default_shutdown" ELSE "idle")
      [] pc = "reload_allowed" ->
             Goto(s, IF reload_allowed(s) THEN "reload" ELSE "idle")
      [] pc = "reload" ->
             Goto(Did(s, "LOG.info", "ATTEMPTING TO RELOAD SKILL"),
                  IF s.instance.id # 0 THEN "reload_skill" ELSE "_prepare_for_load")
      [] pc = "reload_skill" ->
             IF s.instance.id = 0 THEN Meets(s, "idle", "instance is None")
             ELSE Goto(s, IF s.instance.reload_skill THEN "shutdown_watchdog" ELSE "idle")
      [] pc = "shutdown_watchdog" ->
             Goto(shutdown_watchdog(s), "default_shutdown")
      [] pc = "default_shutdown" ->
             IF s.instance.id = 0 THEN Meets(s, "del_instance", "instance is None")
             ELSE IF s.instance.id \notin s.alive
                  THEN Meets(default_shutdown(s, e), "del_instance", "teardown twice")
                  ELSE Goto(default_shutdown(s, e), "del_instance")
      [] pc = "del_instance" ->
             Goto(del_instance(s),
                  IF op = "_handle_filechange" THEN "_emit_skill_shutdown_event"
                  ELSE "idle")
      [] pc = "_emit_skill_shutdown_event" ->
             Goto(_emit_skill_shutdown_event(s), "_prepare_for_load")
      [] pc = "_prepare_for_load" ->
             Goto(_prepare_for_load([s EXCEPT !.now = @ + 1]),
                  IF is_blacklisted(s) THEN "_communicate_load_status"
                  ELSE "_load_skill_source")
      [] pc = "_load_skill_source" ->
             With(_load_skill_source([s EXCEPT !.now = Fresh(th, s.now)], e), LAMBDA t :
             Goto([t EXCEPT !.skill_module = t.ret_module, !.now = s.now],
                  "_create_skill_instance"))
      [] pc = "_create_skill_instance" ->
             With(_create_skill_instance([s EXCEPT !.now = Fresh(th, s.now)], e), LAMBDA t :
             Goto([t EXCEPT !._loaded = t.ret, !.now = s.now],
                  "_communicate_load_status"))
      [] pc = "_communicate_load_status" ->
             With(_communicate_load_status([s EXCEPT !.last_loaded = s.now]), LAMBDA t :
             IF t.raised THEN Meets([t EXCEPT !.raised = FALSE], "idle", "instance is None")
             ELSE Goto(t, "_start_filewatcher"))
      [] pc = "_start_filewatcher" ->
             With(_start_filewatcher([s EXCEPT !.now = Fresh(th, s.now)]), LAMBDA t :
             Goto([t EXCEPT !.now = s.now], "idle"))

\* The host's thread enters op, whose first statement is at pc.
HostCalls(op, pc) ==
    /\ threads' = [threads EXCEPT !.host = [op |-> op, pc |-> pc]]
    /\ UNCHANGED <<loader, last, disk, anomalies, resolution, launcher, question, bus>>

\* load() is called on a loader that holds no instance.
HostLoad ==
    /\ threads.host.pc = "idle"
    /\ instance.id = 0
    /\ now < MaxTime
    /\ HostCalls("load", "_prepare_for_load")

HostUnload ==
    /\ threads.host.pc = "idle"
    /\ HostCalls("unload", "unload")

HostDeactivate ==
    /\ threads.host.pc = "idle"
    /\ HostCalls("deactivate", "deactivate")

\* The skill's source is edited.  A watcher that is armed will report it; a
\* reload is needed when the loader has loaded before and the callback
\* would reload now.
Modify ==
    /\ disk.version < MaxVersion
    /\ disk' = [disk EXCEPT !.version = @ + 1,
                            !.pending = @ \/ armed # {},
                            !.needed = IF load_attempted /\ reload_allowed(Start)
                                       THEN disk.version + 1 ELSE @]
    /\ UNCHANGED <<loader, last, threads, anomalies, resolution, launcher, question, bus>>

\* The watcher's thread takes up the change and enters _handle_filechange.
Notify ==
    /\ disk.pending
    /\ threads.watcher.pc = "idle"
    /\ disk' = [disk EXCEPT !.pending = FALSE]
    /\ threads' = [threads EXCEPT
                      !.watcher = [op |-> "_handle_filechange", pc |-> "reload_allowed"]]
    /\ UNCHANGED <<loader, last, anomalies, resolution, launcher, question, bus>>

\* The watcher's thread has made an instance although deactivate() had
\* returned.
ConstructedInactive(th, pc, t) ==
    /\ th = "watcher"
    /\ pc = "_create_skill_instance"
    /\ t.instance.id # 0
    /\ ~active
    /\ threads.host.pc = "idle"

\* A thread executes its next statement.
Step ==
    \E th \in Threads :
        /\ threads[th].pc # "idle"
        /\ \E e \in StepEnvs :
           \E r \in {statement(th, threads[th].op, threads[th].pc, Start, e)} :
               /\ r.state.now <= MaxTime
               /\ Store(r.state)
               /\ threads' = [threads EXCEPT
                                 ![th] = IF r.pc = "idle" THEN Idle[th]
                                         ELSE [op |-> threads[th].op, pc |-> r.pc]]
               /\ disk' = IF threads[th].pc = "_load_skill_source"
                          THEN [disk EXCEPT !.executed = disk.version]
                          ELSE disk
               /\ anomalies' = anomalies \cup r.met \cup
                                   (IF ConstructedInactive(th, threads[th].pc, r.state)
                                    THEN {"constructed after deactivate()"} ELSE {})
               /\ UNCHANGED <<last, resolution, launcher, question, bus>>

InitSteps ==
    /\ Constructed
    /\ _skill_directory = "/skills/weather"
    /\ blacklisted_skills = {}
    /\ resolution = NotCalled
    /\ launcher = NotLaunched
    /\ question = NotAsked

NextSteps ==
    \/ HostLoad
    \/ HostUnload
    \/ HostDeactivate
    \/ Modify
    \/ Notify
    \/ Step

SpecSteps == InitSteps /\ [][NextSteps]_vars

\* ------------------------------------------------------------ the launcher

\* ovos-skill-launcher {skill_id} [path/to/my/skill_id].  A path is the
\* sequence of its components: os.path.join(p, name) and f"{p}/{name}" put
\* one component at its end.

\* get_xdg_data_dirs() returns at most this many directories, and the
\* configuration names at most this many extra ones.
MaxXdg == 2

MaxExtra == 1

XdgDataDirs == {<<"home", "user", ".local", "share">>, <<"usr", "share">>}

ExtraDirectories == {<<"opt", "skills">>}

join(p, name) == Append(p, name)

RECURSIVE reversed(_)
reversed(l) == IF l = <<>> THEN <<>> ELSE Append(reversed(Tail(l)), Head(l))

RECURSIVE PathsUpTo(_, _)
\* The lists of at most n of the paths P.
PathsUpTo(n, P) ==
    IF n = 0 THEN {<<>>}
    ELSE PathsUpTo(n - 1, P) \cup
         {Append(l, p) : l \in {m \in PathsUpTo(n - 1, P) : Len(m) = n - 1}, p \in P}

\* get_skill_directories(): the XDG data directories in reverse, each with
\* the configured folder name, then the extra directories.
get_skill_directories(l) ==
    reversed([i \in DOMAIN l.xdg_data_dirs |-> join(l.xdg_data_dirs[i], l.directory)])
        \o l.extra_directories

\* The for loop that stops at the first list element for which the test holds.
first_directory_searched(dirs, id, isdir) ==
    IF \E i \in DOMAIN dirs : join(dirs[i], id) \in isdir
    THEN join(dirs[CHOOSE i \in DOMAIN dirs :
                       /\ join(dirs[i], id) \in isdir
                       /\ \A j \in DOMAIN dirs : join(dirs[j], id) \in isdir => i <= j], id)
    ELSE <<>>

\* for p in get_skill_directories(): if isdir(f"{p}/{skill_id}"): ... break
\* The folder the loop stops at, <<>> when it runs to its else branch.
local_skill(l) ==
    first_directory_searched(get_skill_directories(l), l.argv[2], l.isdir)

\* The launch function _launch_script calls, and its arguments.
launch_call(l) ==
    IF Len(l.argv) = 2
    THEN IF local_skill(l) # <<>>
         THEN [fn |-> "launch_standalone_skill", skill_directory |-> local_skill(l),
               skill_id |-> l.argv[2]]
         ELSE [fn |-> "launch_plugin_skill", skill_directory |-> <<>>,
               skill_id |-> l.argv[2]]
    ELSE IF Len(l.argv) = 3
    THEN [fn |-> "launch_standalone_skill", skill_directory |-> l.argv[3],
          skill_id |-> l.argv[2]]
    ELSE [fn |-> "SystemExit", skill_directory |-> <<>>, skill_id |-> "None"]

\* try: ...load(...); wait_for_exit_signal()
\* except KeyboardInterrupt: skill_loader.deactivate()
\* except Exception: LOG.exception(...)
\* t is the loader after load(); a KeyboardInterrupt may arrive once load()
\* has returned.
launch_guard(t, e, interrupt) ==
    IF t.raised THEN Did([t EXCEPT !.raised = FALSE], "LOG.exception", "Load of skill failed!")
    ELSE IF interrupt THEN deactivate(t, e)
    ELSE t

launch_standalone_skill(s, e, interrupt, directory) ==
    With(load([s EXCEPT !._skill_directory = directory], e),
         LAMBDA t : launch_guard(t, e, interrupt))

\* The skill_id is in find_skill_plugins().
launch_plugin_skill(s, e, interrupt, skill_plugin) ==
    With(plugin_load(s, e, skill_plugin), LAMBDA t : launch_guard(t, e, interrupt))

\* The loader of the skill the script starts; the caller's state when it
\* starts none.
_launch_script(s, l, e, interrupt, skill_plugin) ==
    IF launch_call(l).fn = "launch_standalone_skill"
    THEN launch_standalone_skill(s, e, interrupt, launch_call(l).skill_directory)
    ELSE IF launch_call(l).fn = "launch_plugin_skill" /\ launch_call(l).skill_id \in l.plugins
    THEN launch_plugin_skill(s, e, interrupt, skill_plugin)
    ELSE s

\* The loaders the script constructed and called load() on.
started(l) ==
    IF launch_call(l).fn = "launch_standalone_skill"
    THEN <<[loader |-> "SkillLoader", skill_directory |-> launch_call(l).skill_directory,
            skill_id |-> launch_call(l).skill_id]>>
    ELSE IF launch_call(l).fn = "launch_plugin_skill" /\ launch_call(l).skill_id \in l.plugins
    THEN <<[loader |-> "PluginSkillLoader", skill_directory |-> <<>>,
            skill_id |-> launch_call(l).skill_id]>>
    ELSE <<>>

\* How the script ends.
script_exit(l, t) ==
    IF launch_call(l).fn = "SystemExit" THEN "SystemExit"
    ELSE IF launch_call(l).fn = "launch_plugin_skill" /\ launch_call(l).skill_id \notin l.plugins
    THEN "ValueError"
    ELSE IF t.raised THEN "raise"
    ELSE "returned"

\* What a run may be given: the command line, the directories of the
\* machine, the folders in them that hold the skill, the plugins installed.
LauncherInputs ==
    { [NotLaunched EXCEPT !.argv = a, !.xdg_data_dirs = x, !.extra_directories = x2,
                          !.isdir = d, !.plugins = p] :
        a \in {<<"ovos-skill-launcher">>, <<"ovos-skill-launcher", skill_id>>,
               <<"ovos-skill-launcher", skill_id, <<"home", "user", "dev", skill_id>>>>},
        x \in PathsUpTo(MaxXdg, XdgDataDirs),
        x2 \in PathsUpTo(MaxExtra, ExtraDirectories),
        d \in SUBSET { join(q, skill_id) :
                         q \in {join(b, NotLaunched.directory) : b \in XdgDataDirs}
                                 \cup ExtraDirectories },
        p \in SUBSET SkillIds }

InitLaunch ==
    /\ Constructed
    /\ _skill_directory = "None"
    /\ blacklisted_skills \in SUBSET SkillIds
    /\ resolution = NotCalled
    /\ launcher \in LauncherInputs
    /\ question = NotAsked

\* The script runs from its first line to its exit.
LaunchScript ==
    /\ launcher.exit = "none"
    /\ \E e \in LoadEnvs : \E interrupt \in BOOLEAN : \E skill_plugin \in PluginClasses :
         \E t \in {_launch_script(Start, launcher, e, interrupt, skill_plugin)} :
            /\ Store(t)
            /\ last' = [op |-> "_launch_script", pre |-> Pre,
                        blacklisted |-> is_blacklisted(Start),
                        ret |-> IF t.raised THEN "raise" ELSE t.ret, log |-> t.log]
            /\ launcher' = [launcher EXCEPT !.launched = started(launcher),
                                            !.exit = script_exit(launcher, t)]
    /\ UNCHANGED <<threads, disk, anomalies, resolution, question, bus>>

NextLaunch == LaunchScript

SpecLaunch == InitLaunch /\ [][NextLaunch]_vars

\* ------------------------------------------------- waiting for a response

\* OVOSSkill._wait_response(is_cancel, validator, on_fail, num_retries) and
\* the thread of _real_wait_response it starts.  Python's False and None
\* are the strings "False" and "None"; what the user says is one of
\* Utterances.

\* num_retries is at most this (-1 asks without limit); the user is listened
\* to at most this many times.
MaxRetries == 2

MaxPrompts == 4

Utterances == {"yes", "maybe", "cancel"}

\* The callables the skill passes in.
validator(response) == response = "yes"

is_cancel(response) == response = "cancel"

\* What a call may be given.
Questions == {[NotAsked EXCEPT !.num_retries = n] : n \in -1..MaxRetries}

InitAsk ==
    /\ Constructed
    /\ _skill_directory = "/skills/weather"
    /\ blacklisted_skills = {}
    /\ resolution = NotCalled
    /\ launcher = NotLaunched
    /\ question \in Questions

Asking(q) ==
    /\ question' = q
    /\ UNCHANGED <<loader, last, threads, disk, anomalies, resolution, launcher, bus>>

\* The thread is between two statements of _real_wait_response.
Running == question.pc \notin {"none", "returned", "killed"}

\* return inside _real_wait_response: the thread ends.
returns(q) == [q EXCEPT !.pc = "returned"]

\* self._response = False; self._real_wait_response(...): the thread starts
\* with num_fails = 0, the caller goes on to poll.
WaitResponse ==
    /\ question.pc = "none"
    /\ Asking([question EXCEPT !._response = "False", !.num_fails = 0,
                               !.pc = "while", !.caller = "polling"])

\* while True: if self._response is not False: return self._response;
\* otherwise __get_response is entered.
LoopHead ==
    /\ question.pc = "while"
    /\ IF question._response # "False" THEN Asking(returns(question))
       ELSE /\ question.prompts < MaxPrompts
            /\ Asking([question EXCEPT !.pc = "__get_response", !.prompts = @ + 1])

\* response = self.__get_response(): what the user said, None after fifteen
\* seconds of silence, or self._response once that is no longer False.
GetResponse ==
    /\ question.pc = "__get_response"
    /\ \E r \in Utterances \cup {"None"} \cup ({question._response} \ {"False"}) :
           Asking([question EXCEPT !.response = r, !.pc = "if"])

num_none_fails(q) == IF q.num_retries < 0 THEN 1 ELSE q.num_retries

\* if response is None: ... else: validator, is_cancel
judge(q) ==
    IF q.response = "None"
    THEN IF q.num_fails >= num_none_fails(q)
         THEN returns([q EXCEPT !._response = "None"])
         ELSE [q EXCEPT !.pc = "num_fails"]
    ELSE IF validator(q.response) THEN returns([q EXCEPT !._response = q.response])
    ELSE IF is_cancel(q.response) THEN returns([q EXCEPT !._response = "None"])
    ELSE [q EXCEPT !.pc = "num_fails"]

Judge ==
    /\ question.pc = "if"
    /\ Asking(judge(question))

\* 0 < num_retries < num_fails
retries_exhausted(q) == 0 < q.num_retries /\ q.num_retries < q.num_fails

\* num_fails += 1; if 0 < num_retries < num_fails or self._response is not
\* False: self._response = None; return
count(q) ==
    IF retries_exhausted(q) \/ q._response # "False"
    THEN returns([q EXCEPT !._response = "None"])
    ELSE [q EXCEPT !.pc = "on_fail"]

Count ==
    /\ question.pc = "num_fails"
    /\ Asking(count([question EXCEPT !.num_fails = @ + 1]))

\* line = on_fail(response); the line is spoken, or the microphone opened.
OnFail ==
    /\ question.pc = "on_fail"
    /\ Asking([question EXCEPT !.pc = "while"])

\* mycroft.skills.abort_question, or a stop: _handle_killed_wait_response
\* runs, and AbortQuestion is raised in the thread at one of its next
\* statements.
AbortQuestion ==
    /\ Running
    /\ ~question.aborted
    /\ Asking([question EXCEPT !._response = "None", !.aborted = TRUE])

\* The exception ends the thread.
Killed ==
    /\ Running
    /\ question.aborted
    /\ Asking([question EXCEPT !.pc = "killed"])

\* while self._response is False: time.sleep(0.1)
\* return self._response
Poll ==
    /\ question.caller = "polling"
    /\ question._response # "False"
    /\ Asking([question EXCEPT !.caller = "returned", !.result = question._response])

NextAsk ==
    \/ WaitResponse
    \/ LoopHead
    \/ GetResponse
    \/ Judge
    \/ Count
    \/ OnFail
    \/ AbortQuestion
    \/ Killed
    \/ Poll

SpecAsk == InitAsk /\ [][NextAsk]_vars

\* ---------------------------------------------- reading the last operation

\* How often the last operation did ev with arg, and the places where.
At(ev, arg) == {i \in DOMAIN last.log : last.log[i] = [ev |-> ev, arg |-> arg]}

Any(ev) == {i \in DOMAIN last.log : last.log[i].ev = ev}

Emitted(name) == Cardinality(At("emit", name))

LoadStatus == At("emit", "mycroft.skills.loaded") \cup At("emit", "mycroft.skills.loading_failure")

\* Every place of I is before every place of J.
Before(I, J) == \A i \in I, j \in J : i < j

Completed == last.ret # "raise"

Falsy == {"False", "None"}

\* The permission the file-change callback reads, on the loader the last
\* operation was called on.
WasAllowed ==
    last.pre.active /\ (last.pre.instance.id = 0 \/ last.pre.instance.reload_skill)

\* The last operation was reload(), on a loader whose instance forbids it.
DeniedReload ==
    /\ last.op = "reload"
    /\ last.pre.instance.id # 0
    /\ ~last.pre.instance.reload_skill

\* The last operation was reload(), on a loader whose instance permits it.
PermittedReload ==
    /\ last.op = "reload"
    /\ last.pre.instance.id # 0
    /\ last.pre.instance.reload_skill

\* The places where the last operation ran skill-author code to load: the
\* module's execution and the constructor calls.
LoadWork == Any("exec_module") \cup Any("call_modern") \cup Any("call_legacy")
                \cup Any("constructed")

\* ------------------------------------------------------------------ claims

C2_AtMostOneInstanceAlive == Cardinality(alive) <= 1

\* C3: unload() on a loader that holds an instance emits the shutdown event,
\* leaves no instance and does not raise, whatever the teardown hook does.
C3_UnloadEmitsShutdown ==
    last.op = "unload" /\ last.pre.instance.id # 0 =>
        /\ Completed
        /\ instance.id = 0
        /\ Emitted("mycroft.skills.shutdown") = 1

\* C4: after unload() on a loaded loader no watcher is armed and the handle
\* is cleared.
C4_UnloadClearsWatcher ==
    last.op = "unload" /\ last.pre.instance.id # 0 =>
        _watchdog = 0 /\ armed = {}

\* C5: reload() on a loader whose instance forbids reloading returns false
\* and changes nothing: it emits nothing and calls no hook, and every field of
\* the loader, the instances, the watchers and sys.modules are as before.
C5_DeniedReloadIsNoOp ==
    [][ (last'.op = "reload" /\ instance.id # 0 /\ ~instance.reload_skill
            /\ last'.pre.instance = instance) =>
            /\ last'.ret = "False"
            /\ \A i \in DOMAIN last'.log : last'.log[i].ev = "LOG.info"
            /\ Self' = Self
            /\ alive' = alive
            /\ armed' = armed
            /\ sys_modules' = sys_modules
            /\ now' = now ]_vars

\* A denied reload() has returned, on a loader with a watcher.
C5_Witness == DeniedReload /\ last.ret = "False" /\ _watchdog # 0 /\ _loaded = "True"

\* C6: a permitted reload() of a live instance returns, having in this order
\* shut down the old watcher, called the old instance's teardown hook, emitted
\* the shutdown event, done the work of loading, emitted exactly one
\* load-status event and armed a new watcher.
C6_ReloadIsUnloadThenLoad ==
    PermittedReload =>
        /\ Completed
        /\ Cardinality(Any("watchdog.shutdown")) = 1
        /\ Cardinality(Any("default_shutdown")) = 1
        /\ Emitted("mycroft.skills.shutdown") = 1
        /\ Cardinality(LoadStatus) = 1
        /\ Cardinality(Any("FileWatcher")) = 1
        /\ Before(Any("watchdog.shutdown"), Any("default_shutdown"))
        /\ Before(Any("default_shutdown"), At("emit", "mycroft.skills.shutdown"))
        /\ Before(At("emit", "mycroft.skills.shutdown"), LoadWork \cup LoadStatus)
        /\ Before(LoadWork, LoadStatus)
        /\ Before(LoadStatus, Any("FileWatcher"))
        /\ _watchdog # 0
        /\ _watchdog # last.pre._watchdog
        /\ armed = {_watchdog}

\* C7: the file-change callback calls reload() exactly when the loader is
\* active and holds no instance or one that permits reloading; otherwise it
\* emits nothing and leaves instance, loaded flag and watcher as they were.
C7_FileChangeReloadsIffAllowed ==
    last.op = "_handle_filechange" =>
        /\ WasAllowed <=> At("LOG.info", "ATTEMPTING TO RELOAD SKILL") # {}
        /\ ~WasAllowed =>
               /\ last.log = <<>>
               /\ instance = last.pre.instance
               /\ _loaded = last.pre._loaded
               /\ _watchdog = last.pre._watchdog

\* A file change was ignored because the live instance forbids reloading.
C7_Witness ==
    /\ last.op = "_handle_filechange"
    /\ last.pre.active
    /\ last.pre.instance.id # 0
    /\ ~last.pre.instance.reload_skill
    /\ last.log = <<>>

\* C8: deactivate() leaves the loader inactive and without instance; while it
\* is inactive no step of the file-change callback loads a module or makes an
\* instance; only activate() makes it active, and activate() always does.
C8_DeactivateGatesFileChanges ==
    [][ /\ last'.op = "deactivate" => ~active' /\ instance'.id = 0
        /\ last'.op = "activate" => active'
        /\ ~active /\ active' => last'.op = "activate"
        /\ ~active /\ last'.op = "_handle_filechange" =>
               /\ last'.log = <<>>
               /\ skill_module' = skill_module
               /\ sys_modules' = sys_modules
               /\ instance' = instance
               /\ alive' = alive
               /\ now' = now ]_vars

\* A file change arrived at a loader that had loaded and was then deactivated.
C8_Witness ==
    /\ last.op = "_handle_filechange"
    /\ ~last.pre.active
    /\ ~active
    /\ load_attempted
    /\ skill_module.obj # 0

\* C9: a load() called while the blacklist names the skill returns a false
\* result, neither executes the module nor calls a constructor, and emits the
\* loading_failure event.
C9_BlacklistedLoadSkipsAndReports ==
    last.op = "load" /\ last.blacklisted =>
        /\ last.ret \in Falsy
        /\ LoadWork = {}
        /\ Emitted("mycroft.skills.loading_failure") = 1
        /\ Emitted("mycroft.skills.loaded") = 0

\* C10: of two successive load() calls the second follows the blacklist as it
\* is then: named, it returns a false result without any work of loading,
\* emits loading_failure and leaves no instance, also when the first call had
\* succeeded; not named, it makes a normal attempt.
C10_SecondLoadFollowsCurrentBlacklist ==
    last.op = "load" /\ last.pre.load_attempted =>
        /\ last.blacklisted =>
               /\ last.ret \in Falsy
               /\ LoadWork = {}
               /\ Emitted("mycroft.skills.loading_failure") = 1
               /\ instance.id = 0
        /\ ~last.blacklisted =>
               /\ Any("call_modern") # {}
               /\ Cardinality(LoadStatus) = 1

\* The last operation called load() (activate() does nothing else first).
CalledLoad == last.op \in {"load", "activate"}

\* C11: the loaded flag means what is documented.  It is None exactly when no
\* load was ever attempted; after a call of load() it is false when that
\* attempt was skipped (the blacklist named the skill) or made no instance,
\* and true exactly when the attempt made the instance the loader holds.
C11_LoadedFlagMeaning ==
    /\ _loaded = "None" <=> ~load_attempted
    /\ CalledLoad /\ last.blacklisted => _loaded = "False"
    /\ CalledLoad /\ ~last.blacklisted =>
           /\ _loaded = "True" <=> instance.id # 0
           /\ _loaded = "False" <=> instance.id = 0

\* The last operation tried to load and met a failure of the skill: the main
\* file was missing or raised (no module, so None was called), the module
\* held neither factory nor skill class, both constructor forms raised, or
\* _startup raised.
LoadFailed ==
    /\ Any("call_modern") # {}
    /\ Any("constructed") = {} \/ At("_startup", "raised") # {}

\* The teardown hook raised during the last operation.
TeardownRaised == At("default_shutdown", "raised") # {}

\* C12: a failure of the skill does not leave the loader as an exception.
\* Every load(), reload(), unload() or deactivate() during which the load
\* failed or the teardown hook raised returns; a load() or reload() whose
\* load failed returns false, has emitted loading_failure once and loaded
\* never, and leaves no instance.
C12_SkillFailuresAreAbsorbed ==
    /\ last.op \in {"load", "reload", "unload", "deactivate"}
    /\ LoadFailed \/ TeardownRaised
    => /\ Completed
       /\ LoadFailed =>
              /\ last.ret = "False"
              /\ Emitted("mycroft.skills.loading_failure") = 1
              /\ Emitted("mycroft.skills.loaded") = 0
              /\ instance.id = 0

\* C13: whatever the order in which the statements of a file-change reload
\* and of the host's load(), unload() and deactivate() run, there are never
\* two instances alive, no instance is made by the callback after
\* deactivate() returned, no teardown hook is called twice on an instance,
\* and no attribute is read of an instance another thread has cleared.
C13_ReloadIsAtomic ==
    /\ Cardinality(alive) <= 1
    /\ anomalies = {}

\* No thread is in a method and no watcher has a change to report.
Quiescent == threads = Idle /\ ~disk.pending

\* C14: no needed reload is lost.  When the loader has come to rest, no
\* change waiting to be reported, and the callback would reload, the last
\* load has read the last version written while a reload was allowed, or a
\* later one.
C14_NoNeededReloadIsLost ==
    Quiescent /\ reload_allowed(Start) => disk.executed >= disk.needed

\* Every constructor call of the last operation was a call of c.
CalledOnly(c) ==
    \A i \in Any("call_modern") \cup Any("call_legacy") \cup Any("constructed") :
        last.log[i].arg = c

\* The last operation is one that is to make an instance of the class the
\* plugin supplied: load(skill_class), or reload() or activate() after it,
\* the skill not blacklisted and the reload not forbidden by the instance.
PluginMustInstantiate ==
    /\ last.op \in {"load", "reload", "activate"}
    /\ _skill_class # "None"
    /\ ~last.blacklisted
    /\ ~DeniedReload

\* C15: a PluginSkillLoader never executes a module from disk or puts one in
\* sys.modules, never arms a file watcher, and calls no class or factory but
\* the one supplied to load(); each of its operations that is to load calls
\* that class or factory and returns.
C15_PluginSkipsSourceAndWatcher ==
    /\ skill_module = NoModule
    /\ sys_modules = [main |-> 0, subs |-> 0]
    /\ Any("exec_module") = {}
    /\ _watchdog = 0
    /\ armed = {}
    /\ Any("FileWatcher") = {}
    /\ CalledOnly(_skill_class)
    /\ instance.id # 0 => instance.made_by = _skill_class
    /\ PluginMustInstantiate => Completed /\ Any("call_modern") # {}

\* The names a module binds that the loader may call.
DefinedIn(module) ==
    {module.classes[i] : i \in DOMAIN module.classes}
        \cup (IF module.create_skill = "function" THEN {"create_skill"} ELSE {})

\* What holds after an operation that tried to load from the directory: a
\* source that executed gave the module the loader now holds, made in this
\* operation, and it is the one in sys.modules; whatever was called is None
\* or a name that module binds, and the instance made was made from it; a
\* source that was missing or raised left no module, nothing but None was
\* called, no instance was made and the loaded flag is false.
LoadedFromNewSource ==
    /\ At("exec_module", "returned") # {} =>
           /\ skill_module.obj = now
           /\ sys_modules.main = now
           /\ sys_modules.subs \in {0, now}
           /\ \A i \in Any("call_modern") \cup Any("call_legacy") :
                  last.log[i].arg \in DefinedIn(skill_module) \cup {"None"}
           /\ instance.id # 0 =>
                  /\ instance.module = now
                  /\ instance.made_by \in DefinedIn(skill_module)
    /\ At("exec_module", "returned") = {} /\ Any("call_modern") # {} =>
           /\ skill_module = NoModule
           /\ CalledOnly("None")
           /\ instance.id = 0
           /\ _loaded = "False"

\* C16: a load never uses what an earlier version of the source defined.
\* Every operation that loads leaves a module object that is not the one
\* held before, calls only names bound by the module it has just executed,
\* and, when the source is missing or raises, fails with no module and no
\* instance instead of using the module it had.
C16_ReloadNeverUsesStaleModule ==
    [][ now' # now =>
            /\ LoadedFromNewSource'
            /\ skill_module'.obj # 0 /\ (At("exec_module", "returned") # {})' =>
                   skill_module'.obj # skill_module.obj ]_vars

\* A permitted reload() of a loaded skill met a source that raised.
C16_Witness ==
    /\ PermittedReload
    /\ last.pre._loaded = "True"
    /\ At("exec_module", "raised") # {}
    /\ Completed
    /\ last.ret = "False"

\* d is a proper subtype of c.
ProperSubtype(d, c) == d # c /\ c \in Bases(d)

\* The candidate classes of the module get_skill_class was called on.
Found == found_candidates(resolution.skill_module)

\* c has no other candidate as a proper subtype.
MostDerived(c) == \A i \in DOMAIN Found : ~ProperSubtype(Found[i], c)

\* get_skill_class has returned from a call on a module.
ResolvedModule == resolution.done /\ ~callable(resolution.skill_module)

\* C17: for every module the candidates left by the tie-break are, in
\* definition order, exactly the candidates of which no other candidate is a
\* proper subtype; of a base B and its subclass S, in either order, the
\* result is S.
C17_TieBreakKeepsMostDerived ==
    ResolvedModule =>
        /\ resolution.candidates = SelectSeq(Found, MostDerived)
        /\ resolution.skill_module.classes \in {<<"B", "S">>, <<"S", "B">>} =>
               resolution.result = "S"

\* A module with a chain of three levels (B, S, U) and a second subclass of
\* B (S2), the base classes defined last.
C17_Witness ==
    /\ ResolvedModule
    /\ resolution.skill_module.classes = <<"U", "S2", "S", "B">>
    /\ resolution.candidates = <<"U", "S2">>

\* The distinct classes among the remaining candidates.
Remaining == {resolution.candidates[i] : i \in DOMAIN resolution.candidates}

\* C18: with more than one candidate left, get_skill_class returns the first
\* of them in definition order and warns of multiple skills; it warns only
\* when two or more distinct classes are left; with no candidate it returns
\* None; a callable argument is returned as it is, nothing scanned and no
\* warning.
C18_FirstOfSeveralWithDiagnostic ==
    /\ ResolvedModule =>
           /\ Cardinality(Remaining) > 1 =>
                  /\ resolution.result = SelectSeq(Found, MostDerived)[1]
                  /\ resolution.warning
           /\ resolution.warning => Cardinality(Remaining) >= 2
           /\ Found = <<>> => resolution.result = "None"
    /\ resolution.done /\ callable(resolution.skill_module) =>
           /\ resolution.result = resolution.skill_module.callable
           /\ resolution.candidates = <<>>
           /\ ~resolution.warning

\* The constructor calls of the last operation.
ConstructorCalls == Any("call_modern") \cup Any("call_legacy") \cup Any("constructed")

\* C19: when the module the loader executed defines a callable create_skill,
\* every constructor call is a call of that factory, whatever classes the
\* module binds, and the instance is the factory's; a class is called only
\* when the module has no such factory.
C19_FactoryHasPriority ==
    /\ \A i \in ConstructorCalls :
           /\ skill_module.create_skill = "function" => last.log[i].arg = "create_skill"
           /\ last.log[i].arg \in Classes => skill_module.create_skill # "function"
    /\ instance.id # 0 /\ skill_module.create_skill = "function" =>
           instance.made_by = "create_skill"

\* A load() of a module that defines both the factory and a skill class has
\* made its instance.
C19_Witness ==
    /\ last.op = "load"
    /\ last.ret = "True"
    /\ skill_module.create_skill = "function"
    /\ found_candidates(skill_module) # <<>>
    /\ At("constructed", "create_skill") # {}

\* The first constructor form raised: it was called and the next thing done
\* is not the making of the instance.
ModernRaised ==
    \E i \in Any("call_modern") :
        i = Len(last.log) \/ last.log[i + 1].ev # "constructed"

\* C20: in every operation that loads, the constructor is called with bus
\* and skill_id first and exactly once; without arguments if and only if
\* that call raised, once and afterwards; once an instance is made its
\* _is_fully_initialized is read once, and _startup is called once when it
\* is false and not at all when it is true; when both forms or _startup
\* raise the loader is left with no instance and loaded false.
C20_InstantiationProtocol ==
    ConstructorCalls # {} =>
        /\ Cardinality(Any("call_modern")) = 1
        /\ Cardinality(Any("call_legacy")) <= 1
        /\ Any("call_legacy") # {} <=> ModernRaised
        /\ Before(Any("call_modern"), Any("call_legacy"))
        /\ Cardinality(Any("constructed")) <= 1
        /\ Before(Any("call_modern") \cup Any("call_legacy"), Any("constructed"))
        /\ Cardinality(Any("_is_fully_initialized")) = Cardinality(Any("constructed"))
        /\ Before(Any("constructed"), Any("_is_fully_initialized"))
        /\ Before(Any("_is_fully_initialized"), Any("_startup"))
        /\ Cardinality(Any("_startup")) = Cardinality(At("_is_fully_initialized", "False"))
        /\ Any("constructed") = {} \/ At("_startup", "raised") # {} =>
               instance.id = 0 /\ _loaded = "False"

\* The first form raised, the second made an instance that was not fully
\* initialized, and _startup returned.
C20_Witness ==
    /\ last.op = "load"
    /\ last.ret = "True"
    /\ Any("call_legacy") # {}
    /\ At("_startup", "returned") # {}
    /\ instance.id # 0

\* The folder of the skill in the latest of the directories that hold one;
\* <<>> when none does.
LatestHolding(dirs, id, isdir) ==
    IF \E i \in DOMAIN dirs : join(dirs[i], id) \in isdir
    THEN join(dirs[CHOOSE i \in DOMAIN dirs :
                       /\ join(dirs[i], id) \in isdir
                       /\ \A j \in DOMAIN dirs : join(dirs[j], id) \in isdir => j <= i], id)
    ELSE <<>>

IdentifierAlone == launcher.exit # "none" /\ Len(launcher.argv) = 2

LatestCopy ==
    LatestHolding(get_skill_directories(launcher), launcher.argv[2], launcher.isdir)

\* C21: given an identifier alone, the launcher starts exactly one skill.
\* When a directory of get_skill_directories() holds a folder named after
\* the identifier, it is a directory loader on the folder in the latest such
\* directory of the list; the plugin registry is used only when no directory
\* holds one (and then starts the plugin the registry knows).
C21_LatestDirectoryHasPriority ==
    IdentifierAlone =>
        /\ Len(launcher.launched) <= 1
        /\ LatestCopy # <<>> =>
               /\ launcher.launched =
                      <<[loader |-> "SkillLoader", skill_directory |-> LatestCopy,
                         skill_id |-> launcher.argv[2]]>>
               /\ _skill_directory = LatestCopy
        /\ LatestCopy = <<>> /\ launcher.argv[2] \in launcher.plugins =>
               launcher.launched =
                   <<[loader |-> "PluginSkillLoader", skill_directory |-> <<>>,
                      skill_id |-> launcher.argv[2]]>>
        /\ (\E i \in DOMAIN launcher.launched :
                launcher.launched[i].loader = "PluginSkillLoader") => LatestCopy = <<>>

\* The last operation was a load() that returned, a reload() that was not
\* denied and returned, or a file-change callback that called reload().
FinishedLoadAttempt ==
    \/ last.op = "load" /\ Completed
    \/ last.op = "reload" /\ ~DeniedReload /\ Completed
    \/ last.op = "_handle_filechange" /\ WasAllowed

\* C22: for a directory loader, at most one watcher created by the loader is
\* not shut down, in every state; and once a load() or a reload() that was
\* not denied has finished (returning true or false, skipped by the
\* blacklist, or with its exception absorbed by the file-change callback)
\* exactly one watcher is armed, the one the loader holds.
C22_WatcherArmedAfterEveryLoad ==
    /\ Cardinality(armed) <= 1
    /\ FinishedLoadAttempt => Cardinality(armed) = 1 /\ _watchdog \in armed

\* The loader reports loaded as true.
ReportsLoaded == _loaded = "True"

\* C23: in every state reached by load(), unload(), reload(), activate() and
\* deactivate(), the loaded flag is true only while the loader holds an
\* instance that was constructed and not shut down; after unload() or
\* deactivate() the loader does not report loaded as true.
C23_LoadedImpliesLiveInstance ==
    /\ ReportsLoaded => instance.id # 0 /\ instance.id \in alive
    /\ last.op \in {"unload", "deactivate"} => ~ReportsLoaded

ShutdownEvents == {i \in DOMAIN bus : bus[i] = "mycroft.skills.shutdown"}

LoadedEvents == {i \in DOMAIN bus : bus[i] = "mycroft.skills.loaded"}

\* C24: in the sequence of messages one loader emits under any sequential
\* order of load(), reload(), unload(), activate(), deactivate() and
\* file-change callbacks, every shutdown event comes after a loaded event
\* with no other shutdown event in between; and the operation that emits one
\* was called on a loader holding an instance and has run that instance's
\* teardown before.
C24_ShutdownEventsArePaired ==
    /\ \A i \in ShutdownEvents :
           \E j \in LoadedEvents :
               j < i /\ \A k \in ShutdownEvents : ~(j < k /\ k < i)
    /\ Emitted("mycroft.skills.shutdown") > 0 =>
           /\ Emitted("mycroft.skills.shutdown") = 1
           /\ last.pre.instance.id # 0
           /\ Any("default_shutdown") # {}
           /\ Before(Any("default_shutdown"), At("emit", "mycroft.skills.shutdown"))

\* Two instances have been loaded and shut down with their events, one after
\* the other.
C24_Witness ==
    /\ Cardinality(ShutdownEvents) = 2
    /\ Emitted("mycroft.skills.shutdown") = 1

\* The thread of _real_wait_response has returned.
Returned == question.pc = "returned"

\* C25: for every num_retries >= 0 and whatever the user says or leaves
\* unsaid, _real_wait_response listens at most num_retries + 1 times; and
\* whenever it has returned, _response is no longer False, so that the
\* polling loop of _wait_response ends, with that value.
C25_ReturnsWithinRetryLimit ==
    /\ question.num_retries >= 0 => question.prompts <= question.num_retries + 1
    /\ Returned => question._response # "False"
    /\ question.caller = "returned" => question.result # "False"

====
